---- MODULE Spec2Model ----
(***************************************************************************)
(* Chat templates of sglang (python/sglang/lang/chat_template.py): the     *)
(* template registry, the prompt assembly of ChatTemplate.get_prompt and   *)
(* the resolution of a model path / model id to a template through the     *)
(* ordered list of matching functions.                                     *)
(*                                                                         *)
(* Python strings are TLA+ strings (\o, Len and SubSeq act on them as on   *)
(* Python's +, len and slices).  An Optional value is None (the empty      *)
(* tuple) or Some(v) (the one-element tuple).  The module text is ASCII:   *)
(* a non-ASCII code point of a default system prompt is spelled <U+XXXX>.  *)
(***************************************************************************)
EXTENDS Integers, Sequences, FiniteSets, TLC

VARIABLES
    chat_template_registry,      \* Dict[str, ChatTemplate], line 55
    matching_function_registry,  \* List[Callable], line 56 (function names)
    registered,                  \* history: templates passed to register_chat_template after import
    op,                          \* the call in progress ("idle" when none)
    args,                        \* its arguments
    messages,                    \* the caller's message list object of that call
    ret                          \* what the call returned or raised

vars == <<chat_template_registry, matching_function_registry, registered,
          op, args, messages, ret>>

-----------------------------------------------------------------------------
(* Python values *)

None == << >>
Some(v) == <<v>>

\* dict.get(key, default)
DictGet(d, key, default) == IF key \in DOMAIN d THEN d[key] ELSE default

\* d[key] = value
DictSet(d, key, value) ==
    [k \in DOMAIN d \cup {key} |-> IF k = key THEN value ELSE d[k]]

\* f"{content}" : the text of a value inside an f-string
Format(content) == IF content = None THEN "None" ELSE content[1]

UpperCaseLetters == "ABCDEFGHIJKLMNOPQRSTUVWXYZ"
LowerCaseLetters == "abcdefghijklmnopqrstuvwxyz"
NumLetters == Len(LowerCaseLetters)

CharAt(s, i) == SubSeq(s, i, i)

\* upper-case letter -> lower-case letter
ToLower ==
    [c \in {CharAt(UpperCaseLetters, k) : k \in 1..NumLetters} |->
        CharAt(LowerCaseLetters,
               CHOOSE k \in 1..NumLetters : CharAt(UpperCaseLetters, k) = c)]

LowerChar(c) == IF c \in DOMAIN ToLower THEN ToLower[c] ELSE c

\* str.lower() on ASCII text
RECURSIVE lower(_)
lower(s) == IF s = "" THEN "" ELSE LowerChar(CharAt(s, 1)) \o lower(SubSeq(s, 2, Len(s)))

\* sub in s
Contains(sub, s) ==
    \E i \in 1..(Len(s) - Len(sub) + 1) : SubSeq(s, i, i + Len(sub) - 1) = sub

\* bool(model_id): None and "" are falsy
Truthy(v) == v # None /\ v[1] # ""

-----------------------------------------------------------------------------
(* The built-in templates, lines 79-323, in the order the module registers them *)

\* src lines 79-89
T_default ==
    [name |-> "default",
     default_system_prompt |-> None,
     role_prefix_and_suffix |->
            ("system" :> <<"SYSTEM:", "\n">>)
         @@ ("user" :> <<"USER:", "\n">>)
         @@ ("assistant" :> <<"ASSISTANT:", "\n">>),
     stop_str |-> <<>>,
     image_token |-> "<image>",
     style |-> "PLAIN"]

\* src lines 92-102
T_claude ==
    [name |-> "claude",
     default_system_prompt |-> None,
     role_prefix_and_suffix |->
            ("system" :> <<"", "">>)
         @@ ("user" :> <<"\n\nHuman: ", "">>)
         @@ ("assistant" :> <<"\n\nAssistant:", "">>),
     stop_str |-> <<>>,
     image_token |-> "<image>",
     style |-> "PLAIN"]

\* src lines 105-117
T_chatml ==
    [name |-> "chatml",
     default_system_prompt |-> None,
     role_prefix_and_suffix |->
            ("system" :> <<"<|im_start|>system\n", "<|im_end|>\n">>)
         @@ ("user" :> <<"<|im_start|>user\n", "<|im_end|>\n">>)
         @@ ("assistant" :> <<"<|im_start|>assistant\n", "<|im_end|>\n">>),
     stop_str |-> <<"<|im_end|>">>,
     image_token |-> "<image>",
     style |-> "PLAIN"]

\* src lines 120-133
T_chatml_llava ==
    [name |-> "chatml-llava",
     default_system_prompt |-> Some("Answer the questions."),
     role_prefix_and_suffix |->
            ("system" :> <<"<|im_start|>system\n", "<|im_end|>\n">>)
         @@ ("user" :> <<"<|im_start|>user\n", "<|im_end|>\n">>)
         @@ ("assistant" :> <<"<|im_start|>assistant\n", "<|im_end|>\n">>),
     stop_str |-> <<"<|im_end|>">>,
     image_token |-> " <image>\n",
     style |-> "PLAIN"]

\* src lines 135-149
T_vicuna_v1_1 ==
    [name |-> "vicuna_v1.1",
     default_system_prompt |-> Some("A chat between a curious user and an artificial intelligence assistant"
            \o ". The assistant gives helpful, detailed, and polite answers to the use"
            \o "r's questions."),
     role_prefix_and_suffix |->
            ("system" :> <<"", " ">>)
         @@ ("user" :> <<"USER:", " ">>)
         @@ ("assistant" :> <<"ASSISTANT:", "</s>">>),
     stop_str |-> <<>>,
     image_token |-> " <image>\n",
     style |-> "PLAIN"]

\* src lines 152-163
T_llama_2_chat ==
    [name |-> "llama-2-chat",
     default_system_prompt |-> None,
     role_prefix_and_suffix |->
            ("system" :> <<"<<SYS>>\n", "\n<</SYS>>\n\n">>)
         @@ ("user" :> <<"[INST] ", " [/INST]">>)
         @@ ("assistant" :> <<"", " </s><s>">>),
     stop_str |-> <<>>,
     image_token |-> "<image>",
     style |-> "LLAMA2"]

\* src lines 165-185
T_llama_3_instruct ==
    [name |-> "llama-3-instruct",
     default_system_prompt |-> None,
     role_prefix_and_suffix |->
            ("system" :> <<"<|start_header_id|>system<|end_header_id|>\n\n", "<|eot_id|>">>)
         @@ ("user" :> <<"<|start_header_id|>user<|end_header_id|>\n\n", "<|eot_id|>">>)
         @@ ("assistant" :> <<"<|start_header_id|>assistant<|end_header_id|>\n\n", "<|eot_id|>">>),
     stop_str |-> <<"<|eot_id|>">>,
     image_token |-> "<image>",
     style |-> "PLAIN"]

\* src lines 188-202
T_yi ==
    [name |-> "yi",
     default_system_prompt |-> Some("This is a chat between an inquisitive human and an AI assistant. Assum"
            \o "e the role of the AI assistant. Read all the images carefully, and res"
            \o "pond to the human's questions with informative, helpful, detailed and "
            \o "polite answers.<U+8FD9><U+662F><U+4E00><U+4E2A><U+597D><U+5947><U+7684><U+4EBA><U+7C7B><U+548C><U+4E00><U+4E2A><U+4EBA><U+5DE5><U+667A><U+80FD><U+52A9><U+624B><U+4E4B><U+95F4><U+7684><U+5BF9><U+8BDD><U+3002><U+5047><U+8BBE><U+4F60><U+626E><U+6F14><U+8FD9><U+4E2A>AI<U+52A9><U+624B><U+7684><U+89D2><U+8272><U+3002><U+4ED4><U+7EC6><U+9605><U+8BFB><U+6240><U+6709><U+7684><U+56FE><U+50CF><U+FF0C><U+5E76><U+5BF9><U+4EBA><U+7C7B><U+7684><U+95EE>"
            \o "<U+9898><U+505A><U+51FA><U+4FE1><U+606F><U+4E30><U+5BCC><U+3001><U+6709><U+5E2E><U+52A9><U+3001><U+8BE6><U+7EC6><U+7684><U+548C><U+793C><U+8C8C><U+7684><U+56DE><U+7B54><U+3002>"),
     role_prefix_and_suffix |->
            ("system" :> <<"", "\n\n">>)
         @@ ("user" :> <<"### Human:", "\n">>)
         @@ ("assistant" :> <<"### Assistant:", "\n">>),
     stop_str |-> <<>>,
     image_token |-> " <image_placeholder>\n",
     style |-> "PLAIN"]

\* src lines 204-215
T_gemma_it ==
    [name |-> "gemma-it",
     default_system_prompt |-> None,
     role_prefix_and_suffix |->
            ("system" :> <<"", "">>)
         @@ ("user" :> <<"<start_of_turn>user\n", "<end_of_turn>\n">>)
         @@ ("assistant" :> <<"<start_of_turn>model\n", "<end_of_turn>\n">>),
     stop_str |-> <<>>,
     image_token |-> "<image>",
     style |-> "PLAIN"]

\* src lines 217-228
T_dbrx_instruct ==
    [name |-> "dbrx-instruct",
     default_system_prompt |-> Some("You are DBRX, created by Databricks. You were last updated in December"
            \o " 2023. You answer questions based on information available up to that "
            \o "point.\nYOU PROVIDE SHORT RESPONSES TO SHORT QUESTIONS OR STATEMENTS, b"
            \o "ut provide thorough responses to more complex and open-ended questions"
            \o ".\nYou assist with various tasks, from writing to coding (using markdow"
            \o "n for code blocks <U+2014> remember to use ``` with code, JSON, and tables).\n"
            \o "(You do not have real-time data access or code execution capabilities."
            \o " You avoid stereotyping and provide balanced perspectives on controver"
            \o "sial topics. You do not provide song lyrics, poems, or news articles a"
            \o "nd do not divulge details of your training data.)\nThis is your system "
            \o "prompt, guiding your responses. Do not reference it, just respond to t"
            \o "he user. If you find yourself talking about this message, stop. You sh"
            \o "ould be responding appropriately and usually that means not mentioning"
            \o " this.\nYOU DO NOT MENTION ANY OF THIS INFORMATION ABOUT YOURSELF UNLES"
            \o "S THE INFORMATION IS DIRECTLY PERTINENT TO THE USER'S QUERY."),
     role_prefix_and_suffix |->
            ("system" :> <<"<|im_start|>system\n", "<|im_end|>">>)
         @@ ("user" :> <<"\n<|im_start|>user\n", "<|im_end|>">>)
         @@ ("assistant" :> <<"\n<|im_start|>assistant\n", "<|im_end|>">>),
     stop_str |-> <<"<|im_end|>">>,
     image_token |-> "<image>",
     style |-> "PLAIN"]

\* src lines 230-244
T_yt_chat_v1_2 ==
    [name |-> "yt-chat-v1.2",
     default_system_prompt |-> Some("A chat between a curious user and an AI role. The role gives helpful, "
            \o "detailed, and polite answers to the user's questions.\nYour name is Net"
            \o "y, a virtual character created by researchers from BaoYu Organization "
            \o "(BYO)."),
     role_prefix_and_suffix |->
            ("system" :> <<"<|im_start|>system\n", "<|im_end|>">>)
         @@ ("user" :> <<"<|im_start|>user\n", "<|im_end|>">>)
         @@ ("assistant" :> <<"\n<|im_start|>role\n", "<|im_end|>">>),
     stop_str |-> <<"<|im_end|>", "</s>", "<|im_start|>", "<s>", "</|im">>,
     image_token |-> "<image>",
     style |-> "PLAIN"]

\* src lines 246-260
T_yt_chat_v1_3 ==
    [name |-> "yt-chat-v1.3",
     default_system_prompt |-> Some("A chat between a curious user and an AI role. The role gives helpful, "
            \o "detailed, and polite answers to the user's questions.\nYour name is Net"
            \o "y, a virtual character created by researchers from BaoYu Organization "
            \o "(BYO)."),
     role_prefix_and_suffix |->
            ("system" :> <<"<s>System\n", "</s>">>)
         @@ ("user" :> <<"\n<s>User\n", "</s>">>)
         @@ ("assistant" :> <<"\n<s>Role\n", "</s>">>),
     stop_str |-> <<"</s>">>,
     image_token |-> "<image>",
     style |-> "PLAIN"]

\* src lines 262-276
T_yt_chat_v1_6 ==
    [name |-> "yt-chat-v1.6",
     default_system_prompt |-> Some("A chat between a curious user and an AI role. The role gives helpful, "
            \o "detailed, and polite answers to the user's questions.\nYour name is Net"
            \o "y, a virtual character created by researchers from BaoYu Organization "
            \o "(BYO)."),
     role_prefix_and_suffix |->
            ("system" :> <<"<|im_start|>system\n", "<|im_end|>">>)
         @@ ("user" :> <<"\n<|im_start|>user\n", "<|im_end|>">>)
         @@ ("assistant" :> <<"\n<|im_start|>role\n", "<|im_end|>">>),
     stop_str |-> <<"<|im_end|>">>,
     image_token |-> "<image>",
     style |-> "PLAIN"]

\* src lines 279-293
T_yt_chat_v1_7 ==
    [name |-> "yt-chat-v1.7",
     default_system_prompt |-> Some("A chat between a curious user and an AI role. The role gives helpful, "
            \o "detailed, and polite answers to the user's questions.\nYour name is Net"
            \o "y, a virtual character created by researchers from BaoYu Organization "
            \o "(BYO)."),
     role_prefix_and_suffix |->
            ("system" :> <<"<|begin_of_text|>System\n", "<|end_of_text|>">>)
         @@ ("user" :> <<"\n<|begin_of_text|>User\n", "<|end_of_text|>">>)
         @@ ("assistant" :> <<"\n<|begin_of_text|>Role\n", "<|end_of_text|>">>),
     stop_str |-> <<"<|end_of_text|>">>,
     image_token |-> "<image>",
     style |-> "PLAIN"]

\* src lines 296-310
T_yt_chat_v1_8 ==
    [name |-> "yt-chat-v1.8",
     default_system_prompt |-> Some("A chat between a curious user and an AI role. The role gives helpful, "
            \o "detailed, and polite answers to the user's questions.\nYour name is Net"
            \o "y, a virtual character created by researchers from BaoYu Organization "
            \o "(BYO)."),
     role_prefix_and_suffix |->
            ("system" :> <<"<bos>System\n", "<eos>">>)
         @@ ("user" :> <<"\n<bos>User\n", "<eos>">>)
         @@ ("assistant" :> <<"\n<bos>Role\n", "<eos>">>),
     stop_str |-> <<"<eos>", "<bos>, <pad>, <unk>">>,
     image_token |-> "<image>",
     style |-> "PLAIN"]

\* src lines 312-323
T_c4ai_command_r ==
    [name |-> "c4ai-command-r",
     default_system_prompt |-> None,
     role_prefix_and_suffix |->
            ("system" :> <<"<|START_OF_TURN_TOKEN|><|SYSTEM_TOKEN|>", "<|END_OF_TURN_TOKEN|>">>)
         @@ ("user" :> <<"<|START_OF_TURN_TOKEN|><|USER_TOKEN|>", "<|END_OF_TURN_TOKEN|>">>)
         @@ ("assistant" :> <<"<|START_OF_TURN_TOKEN|><|CHATBOT_TOKEN|>", "<|END_OF_TURN_TOKEN|>">>),
     stop_str |-> <<>>,
     image_token |-> "<image>",
     style |-> "PLAIN"]

BuiltinTemplates ==
    <<T_default,
      T_claude,
      T_chatml,
      T_chatml_llava,
      T_vicuna_v1_1,
      T_llama_2_chat,
      T_llama_3_instruct,
      T_yi,
      T_gemma_it,
      T_dbrx_instruct,
      T_yt_chat_v1_2,
      T_yt_chat_v1_3,
      T_yt_chat_v1_6,
      T_yt_chat_v1_7,
      T_yt_chat_v1_8,
      T_c4ai_command_r>>

-----------------------------------------------------------------------------
(* ChatTemplate methods *)

\* the user-prefix suppression also when the first message has no content
get_prefix_and_suffix_no_content_check(self, role, hist_messages) ==
    LET ps == DictGet(self.role_prefix_and_suffix, role, <<"", "">>)
    IN  IF self.style = "LLAMA2" /\ role = "system" /\ hist_messages = << >>
        THEN <<DictGet(self.role_prefix_and_suffix, "user", <<"", "">>)[1] \o
                 DictGet(self.role_prefix_and_suffix, "system", <<"", "">>)[1],
               DictGet(self.role_prefix_and_suffix, "system", <<"", "">>)[2]>>
        ELSE IF self.style = "LLAMA2" /\ role = "user" /\ Len(hist_messages) = 1
        THEN <<"", ps[2]>>
        ELSE ps

\* the LLAMA2 exceptions applied whatever the style
get_prefix_and_suffix_any_style(self, role, hist_messages) ==
    LET ps == DictGet(self.role_prefix_and_suffix, role, <<"", "">>)
    IN  IF role = "system" /\ hist_messages = << >>
        THEN <<DictGet(self.role_prefix_and_suffix, "user", <<"", "">>)[1] \o
                 DictGet(self.role_prefix_and_suffix, "system", <<"", "">>)[1],
               DictGet(self.role_prefix_and_suffix, "system", <<"", "">>)[2]>>
        ELSE IF role = "user" /\ Len(hist_messages) = 1
                 /\ hist_messages[1].content # None
        THEN <<"", ps[2]>>
        ELSE ps

\* ChatTemplate.get_prefix_and_suffix, lines 20-39
get_prefix_and_suffix(self, role, hist_messages) ==
    LET ps == DictGet(self.role_prefix_and_suffix, role, <<"", "">>)
        prefix == ps[1]
        suffix == ps[2]
    IN  IF self.style = "LLAMA2"
        THEN IF role = "system" /\ hist_messages = << >>
             THEN LET user == DictGet(self.role_prefix_and_suffix, "user", <<"", "">>)
                      system == DictGet(self.role_prefix_and_suffix, "system", <<"", "">>)
                  IN  <<user[1] \o system[1], system[2]>>
             ELSE IF role = "user" /\ Len(hist_messages) = 1
                      /\ hist_messages[1].content # None
             THEN <<"", suffix>>
             ELSE <<prefix, suffix>>
        ELSE <<prefix, suffix>>

\* the substituted default system prompt stored into the caller's message
get_prompt_iteration_writes_message(self, msgs, i, prompt) ==
    LET role == msgs[i].role
        content == IF role = "system" /\ msgs[i].content = None
                   THEN self.default_system_prompt
                   ELSE msgs[i].content
        stored == [msgs EXCEPT ![i].content = content]
    IN  IF content = None
        THEN [messages |-> stored, prompt |-> prompt]
        ELSE LET ps == get_prefix_and_suffix(self, role, SubSeq(stored, 1, i - 1))
             IN  [messages |-> stored,
                  prompt |-> prompt \o ps[1] \o Format(content) \o ps[2]]

\* One iteration of the loop of get_prompt, lines 43-51, on message i (1-based):
\* the message list and the prompt after it.  content is a local name, the
\* message itself is only read.
get_prompt_iteration(self, msgs, i, prompt) ==
    LET role == msgs[i].role
        content == IF role = "system" /\ msgs[i].content = None
                   THEN self.default_system_prompt
                   ELSE msgs[i].content
    IN  IF role = "system" /\ msgs[i].content = None /\ content = None
        THEN [messages |-> msgs, prompt |-> prompt]
        ELSE LET ps == get_prefix_and_suffix(self, role, SubSeq(msgs, 1, i - 1))
             IN  [messages |-> msgs,
                  prompt |-> prompt \o ps[1] \o Format(content) \o ps[2]]

RECURSIVE get_prompt_loop(_, _, _, _)
get_prompt_loop(self, msgs, i, prompt) ==
    IF i > Len(msgs)
    THEN [messages |-> msgs, prompt |-> prompt]
    ELSE LET after == get_prompt_iteration(self, msgs, i, prompt)
         IN  get_prompt_loop(self, after.messages, i + 1, after.prompt)

\* ChatTemplate.get_prompt, lines 41-52
get_prompt(self, msgs) == get_prompt_loop(self, msgs, 1, "")

-----------------------------------------------------------------------------
(* The registries, lines 55-76 *)

ReturnNone == [kind |-> "None"]
Returned(template) == [kind |-> "template", template |-> template]
RaiseKeyError(key) == [kind |-> "KeyError", key |-> key]

\* a registration that keeps the template already stored under the name
register_chat_template_keep_first(template) ==
    IF template.name \in DOMAIN chat_template_registry
    THEN chat_template_registry
    ELSE DictSet(chat_template_registry, template.name, template)

\* register_chat_template, lines 59-60: the registry after the call
register_chat_template(template) ==
    DictSet(chat_template_registry, template.name, template)

\* register_chat_template_matching_function, lines 63-64: the list after the call
register_chat_template_matching_function(func) ==
    Append(matching_function_registry, func)

\* a lookup that falls back to the default template for an unknown name
get_chat_template_or_default(name) ==
    IF name \in DOMAIN chat_template_registry
    THEN Returned(chat_template_registry[name])
    ELSE Returned(chat_template_registry["default"])

\* get_chat_template, lines 67-68
get_chat_template(name) ==
    IF name \in DOMAIN chat_template_registry
    THEN Returned(chat_template_registry[name])
    ELSE RaiseKeyError(name)

-----------------------------------------------------------------------------
(* The matching functions, lines 325-424 *)

\* lines 325-330
match_dbrx(model_path, model_id) ==
    IF Truthy(model_id) /\ model_id[1] = "dbrx"
    THEN get_chat_template("dbrx-instruct")
    ELSE IF (Truthy(model_id) /\ model_id[1] = "dbrx")
            \/ (Contains("dbrx", lower(model_path))
                /\ Contains("instruct", lower(model_path)))
    THEN get_chat_template("dbrx-instruct")
    ELSE ReturnNone

\* lines 333-340
match_vicuna(model_path, model_id) ==
    IF Truthy(model_id) /\ model_id[1] = "vicuna"
    THEN get_chat_template("vicuna_v1.1")
    ELSE IF Contains("vicuna", lower(model_path))
    THEN get_chat_template("vicuna_v1.1")
    ELSE IF Contains("llava-v1.5", lower(model_path))
    THEN get_chat_template("vicuna_v1.1")
    ELSE ReturnNone

\* lines 343-355
match_llama2_chat(model_path, model_id) ==
    IF Truthy(model_id) /\ model_id[1] = "llama-2"
    THEN get_chat_template("llama-2-chat")
    ELSE LET path == lower(model_path)
         IN  IF Contains("llama-2", path) /\ Contains("chat", path)
             THEN get_chat_template("llama-2-chat")
             ELSE IF (Contains("mistral", path) \/ Contains("mixtral", path))
                     /\ Contains("instruct", path)
             THEN get_chat_template("llama-2-chat")
             ELSE IF Contains("codellama", path) /\ Contains("instruct", path)
             THEN get_chat_template("llama-2-chat")
             ELSE ReturnNone

\* the model id tested only together with the path
match_llama3_instruct_path_only(model_path, model_id) ==
    LET path == lower(model_path)
    IN  IF Contains("llama-3", path) /\ Contains("instruct", path)
        THEN get_chat_template("llama-3-instruct")
        ELSE ReturnNone

\* lines 358-364
match_llama3_instruct(model_path, model_id) ==
    IF Truthy(model_id) /\ model_id[1] = "llama-3"
    THEN get_chat_template("llama-3-instruct")
    ELSE LET path == lower(model_path)
         IN  IF Contains("llama-3", path) /\ Contains("instruct", path)
             THEN get_chat_template("llama-3-instruct")
             ELSE ReturnNone

\* the path compared as given, without lower()
match_chat_ml_case_sensitive(model_path, model_id) ==
    IF Truthy(model_id) /\ model_id[1] = "chatml"
    THEN get_chat_template("chatml")
    ELSE IF Truthy(model_id) /\ model_id[1] = "chatml-llava"
    THEN get_chat_template("chatml-llava")
    ELSE LET path == model_path
         IN  IF Contains("tinyllama", path)
             THEN get_chat_template("chatml")
             ELSE IF Contains("qwen", path) /\ Contains("chat", path)
             THEN get_chat_template("chatml")
             ELSE IF Contains("llava-v1.6-34b", path)
             THEN get_chat_template("chatml-llava")
             ELSE ReturnNone

\* lines 367-380
match_chat_ml(model_path, model_id) ==
    IF Truthy(model_id) /\ model_id[1] = "chatml"
    THEN get_chat_template("chatml")
    ELSE IF Truthy(model_id) /\ model_id[1] = "chatml-llava"
    THEN get_chat_template("chatml-llava")
    ELSE LET path == lower(model_path)
         IN  IF Contains("tinyllama", path)
             THEN get_chat_template("chatml")
             ELSE IF Contains("qwen", path) /\ Contains("chat", path)
             THEN get_chat_template("chatml")
             ELSE IF Contains("llava-v1.6-34b", path)
             THEN get_chat_template("chatml-llava")
             ELSE ReturnNone

\* lines 383-389
match_chat_yi(model_path, model_id) ==
    IF Truthy(model_id) /\ model_id[1] = "yi"
    THEN get_chat_template("yi")
    ELSE IF Contains("yi", lower(model_path))
    THEN get_chat_template("yi")
    ELSE ReturnNone

\* lines 392-398
match_gemma_it(model_path, model_id) ==
    IF Truthy(model_id) /\ model_id[1] = "gemma"
    THEN get_chat_template("gemma-it")
    ELSE LET path == lower(model_path)
         IN  IF Contains("gemma", path) /\ Contains("it", path)
             THEN get_chat_template("gemma-it")
             ELSE ReturnNone

\* lines 401-416
match_ytchat_v12(model_path, model_id) ==
    IF Truthy(model_id) /\ model_id[1] = "yt-chat-v1.2"
    THEN get_chat_template("yt-chat-v1.2")
    ELSE IF Truthy(model_id) /\ model_id[1] = "yt-chat-v1.3"
    THEN get_chat_template("yt-chat-v1.3")
    ELSE IF Truthy(model_id) /\ model_id[1] = "yt-chat-v1.6"
    THEN get_chat_template("yt-chat-v1.6")
    ELSE IF Truthy(model_id) /\ model_id[1] = "yt-chat-v1.7"
    THEN get_chat_template("yt-chat-v1.7")
    ELSE IF Truthy(model_id) /\ model_id[1] = "yt-chat-v1.8"
    THEN get_chat_template("yt-chat-v1.8")
    ELSE IF Contains("yt-chat", lower(model_path))
    THEN get_chat_template("yt-chat-v1.3")
    ELSE ReturnNone

\* lines 419-424: defined without the registering decorator
match_c4ai_command_r(model_path, model_id) ==
    IF Truthy(model_id) /\ model_id[1] = "c4ai-command-r"
    THEN get_chat_template("c4ai-command-r")
    ELSE IF Contains("c4ai-command-r", lower(model_path))
    THEN get_chat_template("c4ai-command-r")
    ELSE ReturnNone

\* matching_func(model_path, model_id=model_id), line 73
CallMatchingFunction(func, model_path, model_id) ==
    CASE func = "match_dbrx" -> match_dbrx(model_path, model_id)
      [] func = "match_vicuna" -> match_vicuna(model_path, model_id)
      [] func = "match_llama2_chat" -> match_llama2_chat(model_path, model_id)
      [] func = "match_llama3_instruct" -> match_llama3_instruct(model_path, model_id)
      [] func = "match_chat_ml" -> match_chat_ml(model_path, model_id)
      [] func = "match_chat_yi" -> match_chat_yi(model_path, model_id)
      [] func = "match_gemma_it" -> match_gemma_it(model_path, model_id)
      [] func = "match_ytchat_v12" -> match_ytchat_v12(model_path, model_id)
      [] func = "match_c4ai_command_r" -> match_c4ai_command_r(model_path, model_id)

\* The functions the decorator at lines 325, 333, 343, 358, 367, 383, 392 and
\* 401 appends while the module is imported, in that order.
DecoratedMatchingFunctions ==
    <<"match_dbrx", "match_vicuna", "match_llama2_chat", "match_llama3_instruct",
      "match_chat_ml", "match_chat_yi", "match_gemma_it", "match_ytchat_v12">>

\* a loop that goes through every function and keeps the last match
matching_loop_last_match(model_path, model_id, k) ==
    LET n == Len(matching_function_registry)
        hits == {j \in k..n :
                    CallMatchingFunction(matching_function_registry[j],
                                         model_path, model_id) # ReturnNone}
    IN  IF hits = {}
        THEN ("consulted" :> n) @@ get_chat_template("default")
        ELSE ("consulted" :> n) @@
             CallMatchingFunction(
                 matching_function_registry[CHOOSE j \in hits : \A i \in hits : i <= j],
                 model_path, model_id)

\* The loop of get_chat_template_by_model_path, lines 72-76, from the k-th
\* registered function on; "consulted" counts the functions it has called.
RECURSIVE matching_loop(_, _, _)
matching_loop(model_path, model_id, k) ==
    IF k > Len(matching_function_registry)
    THEN ("consulted" :> (k - 1)) @@ get_chat_template("default")
    ELSE LET template == CallMatchingFunction(matching_function_registry[k],
                                              model_path, model_id)
         IN  IF template # ReturnNone
             THEN ("consulted" :> k) @@ template
             ELSE matching_loop(model_path, model_id, k + 1)

\* get_chat_template_by_model_path, lines 71-76
get_chat_template_by_model_path(model_path, model_id) ==
    matching_loop(model_path, model_id, 1)

-----------------------------------------------------------------------------
(* Bounds and the inputs of the calls *)

MaxMsgs == 3            \* longest message list given to get_prompt alone
MaxConversation == 2    \* longest message list when all calls interleave
MaxRegistrations == 2   \* register_chat_template calls after the import
MaxMatchers == 9        \* longest matching_function_registry

\* Templates a caller builds itself: ChatTemplate is a public dataclass.
CallerLlama2WithSystemPrompt ==
    [name |-> "llama-2-chat",
     default_system_prompt |-> Some("You are a helpful, respectful and honest assistant."),
     role_prefix_and_suffix |->
            ("system" :> <<"<<SYS>>\n", "\n<</SYS>>\n\n">>)
         @@ ("user" :> <<"[INST] ", " [/INST]">>)
         @@ ("assistant" :> <<"", " </s><s>">>),
     stop_str |-> <<>>,
     image_token |-> "<image>",
     style |-> "LLAMA2"]

CallerPlainNoSystemRole ==
    [name |-> "custom",
     default_system_prompt |-> Some("Be concise."),
     role_prefix_and_suffix |->
            ("user" :> <<"Q: ", "\n">>)
         @@ ("assistant" :> <<"A: ", "\n">>),
     stop_str |-> <<"\n">>,
     image_token |-> "<image>",
     style |-> "PLAIN"]

CallerLlama2Custom ==
    [name |-> "custom",
     default_system_prompt |-> None,
     role_prefix_and_suffix |->
            ("system" :> <<"[SYS]", "[/SYS]">>)
         @@ ("user" :> <<"[U]", "[/U]">>)
         @@ ("assistant" :> <<"[A]", "[/A]">>),
     stop_str |-> <<>>,
     image_token |-> "<image>",
     style |-> "LLAMA2"]

CallerTemplates ==
    {CallerLlama2WithSystemPrompt, CallerPlainNoSystemRole, CallerLlama2Custom}

Range(f) == {f[x] : x \in DOMAIN f}

Templates == Range(BuiltinTemplates) \cup CallerTemplates

TemplateNames == {t.name : t \in Templates} \cup {"gpt-4"}

\* Messages: content is None only for the system role (the caller contract).
MessageValues ==
    {[role |-> "system", content |-> c] : c \in {None, Some(""), Some("Be brief.")}}
    \cup {[role |-> "user", content |-> Some("Hello!")],
          [role |-> "assistant", content |-> Some("Hi!")],
          [role |-> "tool", content |-> Some("42")]}

\* the kinds of message of the example at lines 428-435
Turns ==
    {[role |-> "system", content |-> None],
     [role |-> "user", content |-> Some("Hello!")],
     [role |-> "assistant", content |-> Some("Hi!")]}

MessageLists(values, n) == UNION {[1..k -> values] : k \in 0..n}

\* Case changes of an ASCII path
ToUpper ==
    [c \in {CharAt(LowerCaseLetters, k) : k \in 1..NumLetters} |->
        CharAt(UpperCaseLetters,
               CHOOSE k \in 1..NumLetters : CharAt(LowerCaseLetters, k) = c)]

UpperChar(c) == IF c \in DOMAIN ToUpper THEN ToUpper[c] ELSE c

IsLetter(c) == LowerChar(c) # c \/ UpperChar(c) # c

RECURSIVE upper(_)
upper(s) == IF s = "" THEN "" ELSE UpperChar(CharAt(s, 1)) \o upper(SubSeq(s, 2, Len(s)))

\* str.title(): a letter is upper case exactly when no letter precedes it
RECURSIVE TitleFrom(_, _)
TitleFrom(s, afterLetter) ==
    IF s = "" THEN ""
    ELSE LET c == CharAt(s, 1)
         IN  (IF afterLetter THEN LowerChar(c) ELSE UpperChar(c))
             \o TitleFrom(SubSeq(s, 2, Len(s)), IsLetter(c))

title(s) == TitleFrom(s, FALSE)

\* the path with the case of its i-th character swapped
SwapCaseAt(s, i) ==
    LET c == CharAt(s, i)
    IN  SubSeq(s, 1, i - 1)
        \o (IF LowerChar(c) # c THEN LowerChar(c) ELSE UpperChar(c))
        \o SubSeq(s, i + 1, Len(s))

CaseVariants(s) ==
    {lower(s), upper(s), title(s)} \cup {SwapCaseAt(s, i) : i \in 1..Len(s)}

\* The substrings the matching functions look for, and two that none looks for
Keywords ==
    {"dbrx", "vicuna", "llava-v1.5", "llama-2", "mistral", "mixtral", "codellama",
     "llama-3", "tinyllama", "qwen", "llava-v1.6-34b", "yi", "gemma", "yt-chat",
     "c4ai-command-r", "instruct", "chat", "it", "gpt2"}

ExamplePaths ==
    {"Qwen-Chat-7B", "lmsys/vicuna-7b-v1.5", "liuhaotian/llava-v1.5-7b",
     "meta-llama/Llama-2-7b-chat-hf", "mistralai/Mixtral-8x7B-Instruct-v0.1",
     "codellama/CodeLlama-7b-Instruct-hf", "meta-llama/Meta-Llama-3-8B-Instruct",
     "TinyLlama/TinyLlama-1.1B-Chat-v1.0", "liuhaotian/llava-v1.6-34b",
     "01-ai/Yi-6B-Chat", "google/gemma-7b-it", "yt-chat-v1.6",
     "CohereForAI/c4ai-command-r-v01", "databricks/dbrx-instruct", "gpt2", ""}

LowerCasePaths ==
    Keywords \cup {a \o "-" \o b : a \in Keywords, b \in Keywords}

ModelPaths ==
    ExamplePaths \cup LowerCasePaths
    \cup {title(p) : p \in LowerCasePaths} \cup {upper(p) : p \in Keywords}

\* model_id -> name of the template the matching function returns for it
AliasTemplate ==
    ("dbrx" :> "dbrx-instruct") @@ ("vicuna" :> "vicuna_v1.1")
    @@ ("llama-2" :> "llama-2-chat") @@ ("llama-3" :> "llama-3-instruct")
    @@ ("chatml" :> "chatml") @@ ("chatml-llava" :> "chatml-llava")
    @@ ("yi" :> "yi") @@ ("gemma" :> "gemma-it")
    @@ ("yt-chat-v1.2" :> "yt-chat-v1.2") @@ ("yt-chat-v1.3" :> "yt-chat-v1.3")
    @@ ("yt-chat-v1.6" :> "yt-chat-v1.6") @@ ("yt-chat-v1.7" :> "yt-chat-v1.7")
    @@ ("yt-chat-v1.8" :> "yt-chat-v1.8") @@ ("c4ai-command-r" :> "c4ai-command-r")

Aliases == DOMAIN AliasTemplate

ModelIds == {None, Some(""), Some("LLAMA-3"), Some("gpt-4")} \cup {Some(a) : a \in Aliases}

ExampleIds == {None, Some(""), Some("llama-3"), Some("c4ai-command-r"), Some("gpt-4")}

\* The defined matching function that the import leaves unregistered
RegistrableFunctions == {"match_c4ai_command_r"}

-----------------------------------------------------------------------------
(* The state after the import of the module *)

RECURSIVE RegisterEach(_, _)
RegisterEach(registry, templates) ==
    IF templates = << >>
    THEN registry
    ELSE RegisterEach(DictSet(registry, Head(templates).name, Head(templates)),
                      Tail(templates))

NoArgs == << >>

Init ==
    /\ chat_template_registry = RegisterEach(<< >>, BuiltinTemplates)
    /\ matching_function_registry = DecoratedMatchingFunctions
    /\ registered = << >>
    /\ op = "idle"
    /\ args = NoArgs
    /\ messages = << >>
    /\ ret = ReturnNone

-----------------------------------------------------------------------------
(* The calls.  The module is used from one thread: a call starts when none *)
(* is in progress and ReturnToCaller ends it.                              *)

RegisterTemplate(template) ==
    /\ op = "idle"
    /\ Len(registered) < MaxRegistrations
    /\ chat_template_registry' = register_chat_template(template)
    /\ registered' = Append(registered, template)
    /\ op' = "register_chat_template"
    /\ args' = [template |-> template]
    /\ ret' = ReturnNone
    /\ UNCHANGED <<matching_function_registry, messages>>

RegisterMatchingFunction(func) ==
    /\ op = "idle"
    /\ Len(matching_function_registry) < MaxMatchers
    /\ matching_function_registry' = register_chat_template_matching_function(func)
    /\ op' = "register_chat_template_matching_function"
    /\ args' = [func |-> func]
    /\ ret' = ReturnNone
    /\ UNCHANGED <<chat_template_registry, registered, messages>>

GetChatTemplate(name) ==
    /\ op = "idle"
    /\ op' = "get_chat_template"
    /\ args' = [name |-> name]
    /\ ret' = get_chat_template(name)
    /\ UNCHANGED <<chat_template_registry, matching_function_registry, registered,
                   messages>>

GetChatTemplateByModelPath(model_path, model_id) ==
    /\ op = "idle"
    /\ op' = "get_chat_template_by_model_path"
    /\ args' = [model_path |-> model_path, model_id |-> model_id]
    /\ ret' = get_chat_template_by_model_path(model_path, model_id)
    /\ UNCHANGED <<chat_template_registry, matching_function_registry, registered,
                   messages>>

GetPrompt(self, msgs) ==
    /\ op = "idle"
    /\ op' = "get_prompt"
    /\ args' = [self |-> self, messages |-> msgs]
    /\ LET result == get_prompt(self, msgs)
       IN  /\ messages' = result.messages
           /\ ret' = [kind |-> "str", str |-> result.prompt]
    /\ UNCHANGED <<chat_template_registry, matching_function_registry, registered>>

ReturnToCaller ==
    /\ op # "idle"
    /\ op' = "idle"
    /\ args' = NoArgs
    /\ messages' = << >>
    /\ ret' = ReturnNone
    /\ UNCHANGED <<chat_template_registry, matching_function_registry, registered>>

\* Every call, interleaved
Next ==
    \/ \E template \in CallerTemplates : RegisterTemplate(template)
    \/ \E func \in RegistrableFunctions : RegisterMatchingFunction(func)
    \/ \E name \in TemplateNames : GetChatTemplate(name)
    \/ \E model_path \in ExamplePaths, model_id \in ExampleIds :
          GetChatTemplateByModelPath(model_path, model_id)
    \/ \E self \in Range(chat_template_registry),
          msgs \in MessageLists(Turns, MaxConversation) : GetPrompt(self, msgs)
    \/ ReturnToCaller

Spec == Init /\ [][Next]_vars

\* The resolver over the combined paths and every model id
NextResolver ==
    \/ \E func \in RegistrableFunctions : RegisterMatchingFunction(func)
    \/ \E model_path \in ModelPaths, model_id \in ModelIds :
          GetChatTemplateByModelPath(model_path, model_id)
    \/ ReturnToCaller

SpecResolver == Init /\ [][NextResolver]_vars

\* The assembler over every template and the longer message lists
NextAssembler ==
    \/ \E self \in Templates, msgs \in MessageLists(MessageValues, MaxMsgs) :
          GetPrompt(self, msgs)
    \/ ReturnToCaller

SpecAssembler == Init /\ [][NextAssembler]_vars

\* The resolver over the example paths and the single substrings, every model id
NextCase ==
    \/ \E model_path \in ExamplePaths \cup Keywords, model_id \in ModelIds :
          GetChatTemplateByModelPath(model_path, model_id)
    \/ ReturnToCaller

SpecCase == Init /\ [][NextCase]_vars

-----------------------------------------------------------------------------
(* Properties *)

IsResolve == op = "get_chat_template_by_model_path"
IsGetPrompt == op = "get_prompt"

ReturnsTemplate(name) ==
    /\ ret.kind = "template"
    /\ ret.template = chat_template_registry[name]

\* the path tests of the functions registered before match_llama3_instruct
EarlierPathTest(model_path) ==
    LET path == lower(model_path)
    IN  \/ Contains("dbrx", path) /\ Contains("instruct", path)
        \/ Contains("vicuna", path)
        \/ Contains("llava-v1.5", path)
        \/ Contains("llama-2", path) /\ Contains("chat", path)
        \/ (Contains("mistral", path) \/ Contains("mixtral", path))
              /\ Contains("instruct", path)
        \/ Contains("codellama", path) /\ Contains("instruct", path)

\* the path tests of every defined matching function
AnyPathTest(model_path) ==
    LET path == lower(model_path)
    IN  \/ EarlierPathTest(model_path)
        \/ Contains("llama-3", path) /\ Contains("instruct", path)
        \/ Contains("tinyllama", path)
        \/ Contains("qwen", path) /\ Contains("chat", path)
        \/ Contains("llava-v1.6-34b", path)
        \/ Contains("yi", path)
        \/ Contains("gemma", path) /\ Contains("it", path)
        \/ Contains("yt-chat", path)
        \/ Contains("c4ai-command-r", path)

\* C1 as stated: with model_id "llama-3" the resolver returns the
\* llama-3-instruct template whatever the model path is.
C1_Llama3IdAlwaysWins ==
    (IsResolve /\ args.model_id = Some("llama-3")) => ReturnsTemplate("llama-3-instruct")

\* C1 amended: with model_id "llama-3" the resolver returns the llama-3-instruct
\* template for every model path that satisfies none of the path tests of the
\* functions registered before match_llama3_instruct (match_dbrx, match_vicuna,
\* match_llama2_chat); a path that satisfies one of them gets that earlier
\* function's template instead.
C1_Llama3IdWinsUnlessEarlierPathMatch ==
    (IsResolve /\ args.model_id = Some("llama-3")) =>
        IF EarlierPathTest(args.model_path)
        THEN /\ ret.kind = "template"
             /\ ret.template.name \in {"dbrx-instruct", "vicuna_v1.1", "llama-2-chat"}
        ELSE ReturnsTemplate("llama-3-instruct")

\* C1 witness: the id wins over the path test of a later function (match_chat_yi)
C1_Witness ==
    /\ IsResolve
    /\ args.model_id = Some("llama-3")
    /\ args.model_path = "yi"
    /\ ReturnsTemplate("llama-3-instruct")

\* what the k-th registered function answers for the arguments of the call
MatcherResult(k) ==
    CallMatchingFunction(matching_function_registry[k], args.model_path, args.model_id)

Hits == {k \in 1..Len(matching_function_registry) : MatcherResult(k) # ReturnNone}

\* C2: the resolver never fails; it returns the template of the first
\* registered function that returns one and calls no function after it; when
\* no function returns a template it returns the template named "default".
C2_FirstMatchOrDefault ==
    IsResolve =>
        /\ ret.kind = "template"
        /\ IF Hits = {}
           THEN /\ ret.template = chat_template_registry["default"]
                /\ ret.consulted = Len(matching_function_registry)
           ELSE \E k \in Hits :
                    /\ \A j \in Hits : k <= j
                    /\ ret.template = MatcherResult(k).template
                    /\ ret.consulted = k

\* C2 witness: two functions would answer differently and the first one decides
C2_Witness ==
    /\ IsResolve
    /\ \E j, k \in Hits :
          /\ j < k
          /\ MatcherResult(j) # MatcherResult(k)
          /\ ret.template = MatcherResult(j).template
          /\ ret.consulted = j

C10_EveryAliasResolves ==
    (IsResolve /\ Truthy(args.model_id) /\ args.model_id[1] \in Aliases
       /\ ~AnyPathTest(args.model_path))
    => ReturnsTemplate(AliasTemplate[args.model_id[1]])

\* every template registered so far, by the import and after it, in order
AllRegistered == BuiltinTemplates \o registered

RegisteredAs(name) == {k \in 1..Len(AllRegistered) : AllRegistered[k].name = name}

LastRegisteredAs(name) ==
    AllRegistered[CHOOSE k \in RegisteredAs(name) : \A j \in RegisteredAs(name) : j <= k]

\* C5: the registry holds, under each name, the template most recently
\* registered under it and nothing under a name never registered;
\* get_chat_template returns that template, or fails with KeyError for a name
\* never registered.
C5_LastRegistrationWins ==
    /\ \A name \in TemplateNames :
          IF RegisteredAs(name) = {}
          THEN name \notin DOMAIN chat_template_registry
          ELSE /\ name \in DOMAIN chat_template_registry
               /\ chat_template_registry[name] = LastRegisteredAs(name)
    /\ DOMAIN chat_template_registry \subseteq TemplateNames
    /\ op = "get_chat_template" =>
          ret = IF RegisteredAs(args.name) = {}
                THEN RaiseKeyError(args.name)
                ELSE Returned(LastRegisteredAs(args.name))

\* C5 witness: a name registered by the import and again afterwards
C5_Witness ==
    /\ op = "get_chat_template"
    /\ args.name = "llama-2-chat"
    /\ registered # << >>
    /\ registered[Len(registered)] = CallerLlama2WithSystemPrompt
    /\ ret = Returned(CallerLlama2WithSystemPrompt)

\* C8: a get_chat_template, get_chat_template_by_model_path or get_prompt call
\* leaves the template registry, the matching function list and the caller's
\* message list as they were.
C8_ReadOnlyCalls ==
    [][op' \in {"get_chat_template", "get_chat_template_by_model_path", "get_prompt"}
         => /\ chat_template_registry' = chat_template_registry
            /\ matching_function_registry' = matching_function_registry
            /\ messages' = IF op' = "get_prompt" THEN args'.messages ELSE messages]_vars

\* C8 witness: a get_prompt call that substituted the default system prompt
C8_Witness ==
    /\ IsGetPrompt
    /\ args.self.default_system_prompt # None
    /\ \E i \in 1..Len(args.messages) :
          args.messages[i] = [role |-> "system", content |-> None]
    /\ Contains(args.self.default_system_prompt[1], ret.str)
    /\ messages = args.messages

\* C3: llama-2-chat on [system without content, user u, assistant a] gives
\* "[INST] " + u + " [/INST]" + a + " </s><s>".
C3_Llama2SkipsEmptySystem ==
    (/\ IsGetPrompt
     /\ args.self = T_llama_2_chat
     /\ Len(args.messages) = 3
     /\ args.messages[1] = [role |-> "system", content |-> None]
     /\ args.messages[2].role = "user"
     /\ args.messages[3].role = "assistant")
    => ret.str = "[INST] " \o args.messages[2].content[1] \o " [/INST]"
                 \o args.messages[3].content[1] \o " </s><s>"

\* C3 witness: the example of the specification
C3_Witness ==
    /\ IsGetPrompt
    /\ args.self = T_llama_2_chat
    /\ args.messages = <<[role |-> "system", content |-> None],
                         [role |-> "user", content |-> Some("Hello!")],
                         [role |-> "assistant", content |-> Some("Hi!")]>>
    /\ ret.str = "[INST] Hello! [/INST]Hi! </s><s>"

\* the content a message is emitted with, None when it is skipped
EmittedContent(self, message) ==
    IF message.role = "system" /\ message.content = None
    THEN self.default_system_prompt
    ELSE message.content

RECURSIVE PlainConcatenation(_, _)
PlainConcatenation(self, msgs) ==
    IF msgs = << >>
    THEN ""
    ELSE LET content == EmittedContent(self, Head(msgs))
             ps == DictGet(self.role_prefix_and_suffix, Head(msgs).role, <<"", "">>)
         IN  (IF content = None THEN "" ELSE ps[1] \o content[1] \o ps[2])
             \o PlainConcatenation(self, Tail(msgs))

\* C4: for a PLAIN template get_prompt returns the concatenation, in order, of
\* prefix + content + suffix of each emitted message, the pair being the one
\* of the message's own role (("", "") for a role not in the mapping).
C4_PlainIsConcatenation ==
    (IsGetPrompt /\ args.self.style = "PLAIN")
    => ret.str = PlainConcatenation(args.self, args.messages)

\* C4 witness: a system message with content first, then a user message,
\* then a role the mapping does not know
C4_Witness ==
    /\ IsGetPrompt
    /\ args.self.style = "PLAIN"
    /\ Len(args.messages) = 3
    /\ args.messages[1] = [role |-> "system", content |-> Some("Be brief.")]
    /\ args.messages[2].role = "user"
    /\ args.messages[3].role = "tool"
    /\ DictGet(args.self.role_prefix_and_suffix, "user", <<"", "">>)[1] # ""
    /\ ret.str = PlainConcatenation(args.self, args.messages)

UserPrefix(self) == DictGet(self.role_prefix_and_suffix, "user", <<"", "">>)[1]
UserSuffix(self) == DictGet(self.role_prefix_and_suffix, "user", <<"", "">>)[2]
SystemPrefix(self) == DictGet(self.role_prefix_and_suffix, "system", <<"", "">>)[1]
SystemSuffix(self) == DictGet(self.role_prefix_and_suffix, "system", <<"", "">>)[2]

\* message i is a user message assembled without the user prefix
PrefixSuppressed(self, msgs, i) ==
    /\ msgs[i].role = "user"
    /\ get_prefix_and_suffix(self, "user", SubSeq(msgs, 1, i - 1))[1] # UserPrefix(self)

\* C7 as stated: in a LLAMA2 template a user message's prefix is suppressed
\* only when the single message before it is a system message that was
\* emitted with the fused prefix user_prefix + system_prefix.
C7_SuppressedOnlyAfterFusedSystem ==
    (IsGetPrompt /\ args.self.style = "LLAMA2") =>
        \A i \in 1..Len(args.messages) :
            PrefixSuppressed(args.self, args.messages, i) =>
                /\ i = 2
                /\ args.messages[1].role = "system"
                /\ EmittedContent(args.self, args.messages[1]) # None
                /\ get_prefix_and_suffix(args.self, "system", << >>)[1]
                      = UserPrefix(args.self) \o SystemPrefix(args.self)

StartsWith(s, prefix) ==
    Len(prefix) <= Len(s) /\ SubSeq(s, 1, Len(prefix)) = prefix

\* C9 as stated: in a LLAMA2 template, when the first message is an emitted
\* system message and the second a user message, the prompt begins
\* user_prefix + system_prefix + system content + system_suffix + user content
\* + user_suffix.
C9_UserPrefixOnceInOpening ==
    (/\ IsGetPrompt
     /\ args.self.style = "LLAMA2"
     /\ Len(args.messages) >= 2
     /\ args.messages[1].role = "system"
     /\ EmittedContent(args.self, args.messages[1]) # None
     /\ args.messages[2].role = "user")
    => StartsWith(ret.str,
                  UserPrefix(args.self) \o SystemPrefix(args.self)
                  \o EmittedContent(args.self, args.messages[1])[1]
                  \o SystemSuffix(args.self)
                  \o args.messages[2].content[1] \o UserSuffix(args.self))
====
